---- MODULE Spec2Model ----
(***************************************************************************)
(* A model of the tool-calling agent of Project_Dashboard:                 *)
(*   src/ai_engine.py       _fetch_gemini_response, _execute_tool,         *)
(*                          chat_with_agent                                *)
(*   src/tools_registry.py  TOOL_REGISTRY                                  *)
(*   src/app.py             the chat handling of the dashboard session     *)
(*                                                                         *)
(*   src/data_processor.py  load_and_process_data                          *)
(*                                                                         *)
(* The specifications share the operators that model the code:             *)
(*   Spec      one session: calls of chat_with_agent, direct or through    *)
(*             the dashboard, each running its turn loop step by step      *)
(*   SpecFetch one call of _fetch_gemini_response, attempt by attempt      *)
(*   SpecTool  one call of _execute_tool on inputs drawn from bounded sets *)
(*   SpecColumns, SpecIssues, SpecDefects, SpecRaid                        *)
(*             one call of load_and_process_data on tables drawn from      *)
(*             bounded sets                                                *)
(*                                                                         *)
(* A text is a sequence of string tokens: "a b" is <<"a", " ", "b">>, so   *)
(* that joining and prefixing are computed, and a fixed message is a       *)
(* one-token text.                                                         *)
(***************************************************************************)
EXTENDS Integers, Sequences, FiniteSets, TLC

\* ---------------------------------------------------------------- bounds

\* parts in one model response
MaxParts == 2
\* tool-call requests the model makes during one chat_with_agent call
MaxDispatch == 5
\* a new call starts only on a history of at most this many entries
MaxCarry == 2
\* rows of the issues table
MaxIssues == 2
\* rows of the defects table
MaxDefects == 2
\* rows of the RAID table
MaxRaidItems == 2
\* declared parameters of a Tool object
MaxParams == 2

\* ------------------------------------------------------ program constants

MAX_RETRIES == 5
MaxTurns == 5
\* the sprints of the capacity window, and the capacity assumed per assignee
CapacityWindow == 5
AssumedCapacity == 40

\* ------------------------------------------------------------------ state

\* a session and the chat_with_agent call it is in
VARIABLES pc, caller, api_key, user_query, preprocessed_dataframes, history, hist0, turn_count,
          gemini_response, result, queries, sentHttp, fcResponses,
          dispatchCount, turn_hist

chatVars == <<pc, caller, api_key, user_query, preprocessed_dataframes, history, hist0, turn_count,
              gemini_response, result, queries, sentHttp, fcResponses,
              dispatchCount, turn_hist>>

\* one call of _fetch_gemini_response
VARIABLES fpc, f_key, f_attempt, requests, sleeps, seen, fetch_result

fetchVars == <<fpc, f_key, f_attempt, requests, sleeps, seen, fetch_result>>

\* one call of _execute_tool
VARIABLES tpc, tool_name, tool_args, tool_pre, call_args, tool_output

toolVars == <<tpc, tool_name, tool_args, tool_pre, call_args, tool_output>>

\* one call of load_and_process_data
VARIABLES dpc, jira_file, defects_file, raid_file, data_result

dataVars == <<dpc, jira_file, defects_file, raid_file, data_result>>

\* one call of Tool.get_spec or of get_all_tool_specs
VARIABLES gpc, self, spec_result, all_specs

specVars == <<gpc, self, spec_result, all_specs>>

vars == <<chatVars, fetchVars, toolVars, dataVars, specVars>>

\* the frames of the specifications
ChatOnly == UNCHANGED <<fetchVars, toolVars, dataVars, specVars>>
FetchOnly == UNCHANGED <<chatVars, toolVars, dataVars, specVars>>
ToolOnly == UNCHANGED <<chatVars, fetchVars, dataVars, specVars>>
DataOnly == UNCHANGED <<chatVars, fetchVars, toolVars, specVars>>
SpecOnly == UNCHANGED <<chatVars, fetchVars, toolVars, dataVars>>

\* ------------------------------------------------------------------ texts

Words == {<<"a">>, <<"b">>}

NoneText == <<"<None>">>

MsgApiKey == <<"API Key required for AI analysis.">>
MsgEmptyCandidate ==
  <<"I couldn't generate a clear response for your query (empty candidate).">>
MsgEmptyContent ==
  <<"I couldn't generate a clear response for your query (empty content).">>
MsgMaxTurns ==
  <<"The agent reached its maximum turn limit without providing a final answer.">>
MsgFailedToConnect ==
  <<"Failed to connect to Gemini API after multiple retries (Rate Limit or Connection Error).">>

\* f"AI API Error: HTTP Error: {status_code} - {text}" (the body text is left out)
MsgHttpError(status) == <<"AI API Error: ", "HTTP Error: ", ToString(status)>>

\* f"An unexpected error occurred during the API call: {e}"
MsgUnexpected == <<"An unexpected error occurred during the API call: ">>

RECURSIVE JoinConcat(_)
JoinConcat(ts) == IF Len(ts) = 0 THEN <<>> ELSE ts[1] \o JoinConcat(Tail(ts))

\* " ".join(text_parts)
RECURSIVE JoinSpace(_)
JoinSpace(ts) ==
  IF Len(ts) = 0 THEN <<>>
  ELSE IF Len(ts) = 1 THEN ts[1]
  ELSE ts[1] \o <<" ">> \o JoinSpace(Tail(ts))

SeqsUpTo(S, n) == UNION {[1..k -> S] : k \in 0..n}

\* ------------------------------------------------------- the tool registry

TableNames == {"df_jira", "df_defects", "df_raid"}

\* the table a session holds under a name
TableOf(n) ==
  CASE n = "df_jira" -> "DF_jira"
    [] n = "df_defects" -> "DF_defects"
    [] OTHER -> "DF_raid"

NoArgs == [x \in {} |-> "none"]

Range(s) == {s[i] : i \in DOMAIN s}

\* a declared parameter: its name and its JSON schema, a dict of texts
Param(name, param_spec) == [name |-> name, spec |-> param_spec]

\* the schemas the registry declares
ObjectParam == [type |-> "object", description |-> "(Provided by orchestrator)"]
NumSprintsParam ==
  [type |-> "integer", description |-> "(default 5)", default |-> "5"]

\* Tool.__init__: parameters is the dict of the declared parameters in
\* declaration order; params are its keys and defaults the declared defaults
Tool(name, description, parameters) ==
  [name |-> name,
   description |-> description,
   parameters |-> parameters,
   params |-> [i \in DOMAIN parameters |-> parameters[i].name],
   defaults |->
     [n \in {parameters[i].name :
               i \in {j \in DOMAIN parameters :
                        "default" \in DOMAIN parameters[j].spec}} |->
        (CHOOSE q \in Range(parameters) : q.name = n).spec["default"]]]

\* registry key -> Tool
TOOL_REGISTRY ==
  [calculate_velocity_trend |->
     Tool("calculate_velocity_trend", "velocity trend",
          <<Param("df_jira", ObjectParam)>>),
   calculate_sprint_completion |->
     Tool("calculate_sprint_completion", "sprint goal completion",
          <<Param("df_jira", ObjectParam)>>),
   calculate_capacity_utilization |->
     Tool("calculate_capacity_utilization", "capacity utilization",
          <<Param("df_jira", ObjectParam), Param("num_sprints", NumSprintsParam)>>),
   calculate_defect_density |->
     Tool("calculate_defect_density", "defect density",
          <<Param("df_jira", ObjectParam), Param("df_defects", ObjectParam)>>),
   calculate_defect_stage_distribution |->
     Tool("calculate_defect_stage_distribution", "defect stage distribution",
          <<Param("df_defects", ObjectParam)>>),
   get_raid_summary |->
     Tool("get_raid_summary", "RAID summary",
          <<Param("df_raid", ObjectParam)>>)]

ToolNames == DOMAIN TOOL_REGISTRY

\* the keys of TOOL_REGISTRY in insertion order
RegistryKeys ==
  <<"calculate_velocity_trend", "calculate_sprint_completion",
    "calculate_capacity_utilization", "calculate_defect_density",
    "calculate_defect_stage_distribution", "get_raid_summary">>

\* line 30: the schema without its 'optional' key
CleanedSpec(param_spec) ==
  [k \in DOMAIN param_spec \ {"optional"} |-> param_spec[k]]

AllParamNames(parameters) == [i \in DOMAIN parameters |-> parameters[i].name]

\* lines 28-33: the names of the parameters declared without default
RequiredParamsList(parameters) ==
  LET required == SelectSeq(parameters, LAMBDA q : "default" \notin DOMAIN q.spec)
  IN [i \in DOMAIN required |-> required[i].name]

\* lines 27-31
CleanedParameters(parameters) ==
  [i \in DOMAIN parameters |->
     Param(parameters[i].name, CleanedSpec(parameters[i].spec))]

\* Tool.get_spec
get_spec(tool) ==
  [name |-> tool.name,
   description |-> tool.description,
   parameters |->
     [type |-> "object",
      properties |-> CleanedParameters(tool.parameters),
      required |-> RequiredParamsList(tool.parameters)]]

get_all_tool_specs ==
  [i \in DOMAIN RegistryKeys |-> get_spec(TOOL_REGISTRY[RegistryKeys[i]])]

\* ------------------------------------- get_spec and get_all_tool_specs, alone

NoTool == Tool("", "", <<>>)
NoSpec == get_spec(NoTool)

RegistryIdle ==
  /\ gpc = "idle"
  /\ self = NoTool
  /\ spec_result = NoSpec
  /\ all_specs = <<>>

\* tool.get_spec() on a Tool object
GetSpec ==
  /\ gpc = "get_spec"
  /\ spec_result' = get_spec(self)
  /\ gpc' = "returned"
  /\ UNCHANGED <<self, all_specs>>
  /\ SpecOnly

GetAllToolSpecs ==
  /\ gpc = "get_all_tool_specs"
  /\ all_specs' = get_all_tool_specs
  /\ gpc' = "returned_all"
  /\ UNCHANGED <<self, spec_result>>
  /\ SpecOnly

\* one iteration of the loop over tool.parameters: what it adds to call_args
ResolveParamModelFirst(p, tool, args, dfs) ==
  IF p \in DOMAIN args THEN p :> args[p]
  ELSE IF p \in DOMAIN dfs THEN p :> dfs[p]
  ELSE IF p \in DOMAIN tool.defaults THEN p :> tool.defaults[p]
  ELSE NoArgs

ResolveParam(p, tool, args, dfs) ==
  IF p \in DOMAIN dfs THEN p :> dfs[p]
  ELSE IF p \in DOMAIN args THEN p :> args[p]
  ELSE IF p \in DOMAIN tool.defaults THEN p :> tool.defaults[p]
  ELSE NoArgs

\* call_args after the loop over the first k declared parameters
RECURSIVE CallArgsUpTo(_, _, _, _)
CallArgsUpTo(k, tool, args, dfs) ==
  IF k = 0 THEN NoArgs
  ELSE ResolveParam(tool.params[k], tool, args, dfs)
         @@ CallArgsUpTo(k - 1, tool, args, dfs)

CallArgs(tool, args, dfs) == CallArgsUpTo(Len(tool.params), tool, args, dfs)

\* tool.func(**call_args): the calculators are not part of the sources; a call
\* fails when a declared parameter of the function got no argument
ToolFuncRaises(tool, cargs) ==
  \E p \in Range(tool.params) : p \notin DOMAIN cargs

ToolOutput(kind, name, cargs) == [kind |-> kind, tool |-> name, args |-> cargs]

NoOutput == ToolOutput("none", "", NoArgs)

ExecuteTool(name, args, dfs) ==
  IF name \notin ToolNames
    THEN ToolOutput("not_found", name, NoArgs)
    ELSE LET tool == TOOL_REGISTRY[name]
             cargs == CallArgs(tool, args, dfs)
         IN IF ToolFuncRaises(tool, cargs)
              THEN ToolOutput("exec_error", name, NoArgs)
              ELSE ToolOutput("ok", name, cargs)

\* ------------------------------------------------- _execute_tool, alone

ArgNames == {"df_jira", "num_sprints", "extra"}
LlmValues == {"3", "5"}
ArgMaps == UNION {[S -> LlmValues] : S \in SUBSET ArgNames}
PreMaps == {[n \in S |-> TableOf(n)] : S \in SUBSET TableNames}
RequestedNames == ToolNames \cup {"no_such_tool"}

ToolIdle ==
  /\ tpc = "idle"
  /\ tool_name = ""
  /\ tool_args = NoArgs
  /\ tool_pre = NoArgs
  /\ call_args = NoArgs
  /\ tool_output = NoOutput

ToolInit ==
  /\ tpc = "call"
  /\ tool_name \in RequestedNames
  /\ tool_args \in ArgMaps
  /\ tool_pre \in PreMaps
  /\ call_args = NoArgs
  /\ tool_output = NoOutput

ToolNotFound ==
  /\ tpc = "call"
  /\ tool_name \notin ToolNames
  /\ tool_output' = ExecuteTool(tool_name, tool_args, tool_pre)
  /\ tpc' = "returned"
  /\ UNCHANGED <<tool_name, tool_args, tool_pre, call_args>>
  /\ ToolOnly

ToolCall ==
  /\ tpc = "call"
  /\ tool_name \in ToolNames
  /\ call_args' = CallArgs(TOOL_REGISTRY[tool_name], tool_args, tool_pre)
  /\ tool_output' = ExecuteTool(tool_name, tool_args, tool_pre)
  /\ tpc' = "returned"
  /\ UNCHANGED <<tool_name, tool_args, tool_pre>>
  /\ ToolOnly



\* --------------------------------------------------- the model's responses

NoName == "<no name>"

TextPart(t) == [kind |-> "text", text |-> t, name |-> NoName, args |-> NoArgs]
CallPart(n, a) == [kind |-> "functionCall", text |-> NoneText, name |-> n, args |-> a]
OtherPart == [kind |-> "other", text |-> NoneText, name |-> NoName, args |-> NoArgs]

\* the tool names the model asks for in a session; NoName: a functionCall
\* object without a 'name'
ChatToolNames == {"calculate_velocity_trend", "no_such_tool", NoName}

Parts ==
  {TextPart(t) : t \in Words} \cup {CallPart(n, NoArgs) : n \in ChatToolNames}
    \cup {OtherPart}

Body(cands, cand, parts) == [candidates |-> cands, candidate |-> cand, parts |-> parts]

NoBody == Body("none", "none", <<>>)

\* a JSON body: no 'candidates' key; 'candidates': []; 'candidates': [{}];
\* a first candidate without 'content'; a first candidate with content parts
Bodies ==
  {Body("missing", "none", <<>>), Body("empty_list", "none", <<>>),
   Body("present", "empty", <<>>), Body("present", "no_content", <<>>)}
    \cup {Body("present", "content", ps) : ps \in SeqsUpTo(Parts, MaxParts)}

IsCall(part) == part.kind = "functionCall"
IsText(part) == part.kind = "text"

NumCalls(body) == Cardinality({i \in DOMAIN body.parts : IsCall(body.parts[i])})

\* ------------------------------------------------ _fetch_gemini_response

ApiKeys == {"<None>", "", "key"}

KeyMissingNoneOnly(k) == k = "<None>"

\* not api_key
KeyMissing(k) == k \in {"<None>", ""}

HttpErrorStatuses == {400, 404, 429, 500, 502, 503}

\* what one attempt meets: a 2xx answer with a JSON body, an HTTP error
\* status, or another failure (no connection, a body that is not JSON)
Outcome(kind, status, body) == [kind |-> kind, status |-> status, body |-> body]

Outcomes ==
  {Outcome("ok", 200, b) : b \in Bodies}
    \cup {Outcome("http_error", s, NoBody) : s \in HttpErrorStatuses}
    \cup {Outcome("no_connection", 0, NoBody), Outcome("bad_json", 200, NoBody)}

FetchResult(kind, text, body) == [kind |-> kind, text |-> text, body |-> body]

NoFetchResult == FetchResult("none", <<>>, NoBody)

RetryableServerErrors == {429} \cup (500..599)

Retryable == {429, 500, 503}

BackoffLinear(att) == att + 1

Backoff(att) == 2 ^ att

RetryAllowedInLastAttempt(att) == att < MAX_RETRIES

\* attempt < MAX_RETRIES - 1
RetryAllowed(att) == att < MAX_RETRIES - 1

\* the body of the att loop: retry (after a sleep) or return
AttemptResult(att, o) ==
  CASE o.kind = "ok" ->
         [retry |-> FALSE, sleep |-> 0, result |-> FetchResult("json", <<>>, o.body)]
    [] o.kind = "http_error" ->
         IF o.status \in Retryable /\ RetryAllowed(att)
           THEN [retry |-> TRUE, sleep |-> Backoff(att), result |-> NoFetchResult]
           ELSE [retry |-> FALSE, sleep |-> 0,
                 result |-> FetchResult("error", MsgHttpError(o.status), NoBody)]
    [] OTHER ->
         [retry |-> FALSE, sleep |-> 0,
          result |-> FetchResult("error", MsgUnexpected, NoBody)]

\* 'continue': the next att, or the return after the loop
LoopExhausted(att) == att >= MAX_RETRIES

ExhaustedResult == FetchResult("error", MsgFailedToConnect, NoBody)

FetchIdle ==
  /\ fpc = "idle"
  /\ f_key = "key"
  /\ f_attempt = 0
  /\ requests = 0
  /\ sleeps = <<>>
  /\ seen = <<>>
  /\ fetch_result = NoFetchResult

FetchInit ==
  /\ fpc = "start"
  /\ f_key \in ApiKeys
  /\ f_attempt = 0
  /\ requests = 0
  /\ sleeps = <<>>
  /\ seen = <<>>
  /\ fetch_result = NoFetchResult

FetchNoKey ==
  /\ fpc = "start"
  /\ KeyMissing(f_key)
  /\ fetch_result' = FetchResult("error", MsgApiKey, NoBody)
  /\ fpc' = "returned"
  /\ UNCHANGED <<f_key, f_attempt, requests, sleeps, seen>>
  /\ FetchOnly

FetchEnter ==
  /\ fpc = "start"
  /\ ~KeyMissing(f_key)
  /\ fpc' = "attempt"
  /\ UNCHANGED <<f_key, f_attempt, requests, sleeps, seen, fetch_result>>
  /\ FetchOnly

FetchRetry(o) ==
  /\ fpc = "attempt"
  /\ AttemptResult(f_attempt, o).retry
  /\ requests' = requests + 1
  /\ seen' = Append(seen, o)
  /\ sleeps' = Append(sleeps, AttemptResult(f_attempt, o).sleep)
  /\ f_attempt' = f_attempt + 1
  /\ IF LoopExhausted(f_attempt + 1)
       THEN fpc' = "returned" /\ fetch_result' = ExhaustedResult
       ELSE fpc' = "attempt" /\ UNCHANGED fetch_result
  /\ UNCHANGED f_key
  /\ FetchOnly

FetchReturn(o) ==
  /\ fpc = "attempt"
  /\ ~AttemptResult(f_attempt, o).retry
  /\ requests' = requests + 1
  /\ seen' = Append(seen, o)
  /\ fetch_result' = AttemptResult(f_attempt, o).result
  /\ fpc' = "returned"
  /\ UNCHANGED <<f_key, f_attempt, sleeps>>
  /\ FetchOnly

\* ------------------------------------------------------- chat_with_agent

Entry(role, text, name, output) ==
  [role |-> role, text |-> text, name |-> name, result |-> output]

\* {"role": "user", "parts": [{"text": q}]}
UserEntry(q) == Entry("user", q, NoName, NoOutput)
\* {"role": "model", "parts": [{"text": t}]}
ModelEntry(t) == Entry("model", t, NoName, NoOutput)
\* {"role": "function", "parts": [{"functionResponse": {"name": n, "response": {"result": r}}}]}
FunctionEntry(n, r) == Entry("function", NoneText, n, r)

Last(h) == h[Len(h)]

\* history[-1].get("parts")[0].get("text")
LastText(h) == Last(h).text

RestartWithUserQuery(h, q) == <<UserEntry(q)>>

\* the first statement of chat_with_agent
AppendUserQuery(h, q) ==
  IF h = <<>> \/ LastText(h) # q THEN Append(h, UserEntry(q)) ELSE h

\* the loop over the parts of a response: every functionCall part is
\* dispatched and its output appended; function_call['name'] raises KeyError
\* on a functionCall without a name
DispatchStep(hist, part, dfs) ==
  Append(hist, FunctionEntry(part.name, ExecuteTool(part.name, part.args, dfs)))

RECURSIVE DispatchParts(_, _, _, _)
DispatchParts(parts, hist, found, dfs) ==
  IF parts = <<>> THEN [history |-> hist, found |-> found, crashed |-> FALSE]
  ELSE LET part == Head(parts) IN
    IF IsCall(part)
      THEN IF part.name = NoName
             THEN [history |-> hist, found |-> TRUE, crashed |-> TRUE]
             ELSE DispatchParts(Tail(parts), DispatchStep(hist, part, dfs), TRUE, dfs)
      ELSE DispatchParts(Tail(parts), hist, found, dfs)

\* [part['text'] for part in parts if 'text' in part]
RECURSIVE TextParts(_)
TextParts(parts) ==
  IF parts = <<>> THEN <<>>
  ELSE IF IsText(Head(parts)) THEN <<Head(parts).text>> \o TextParts(Tail(parts))
  ELSE TextParts(Tail(parts))

Result(kind, text, hist) == [kind |-> kind, text |-> text, history |-> hist]

NoResult == Result("none", <<>>, <<>>)

Step(next, kind, text, hist) ==
  [next |-> next, result |-> Result(kind, text, hist), history |-> hist]

AnswerStepEmptyAsError(parts, hist) ==
  LET texts == TextParts(parts) IN
    IF texts # <<>>
      THEN Step("return", "response", JoinSpace(texts),
                Append(hist, ModelEntry(JoinSpace(texts))))
      ELSE Step("return", "error", MsgEmptyContent, hist)

\* the answer of a turn without function calls
AnswerStep(parts, hist) ==
  LET texts == TextParts(parts) IN
    IF texts # <<>>
      THEN Step("return", "response", JoinSpace(texts),
                Append(hist, ModelEntry(JoinSpace(texts))))
      ELSE Step("return", "response", MsgEmptyContent, hist)

\* one turn of the loop after the fetch: return, raise, or go to the next turn
HandleResponse(resp, hist, dfs) ==
  IF resp.kind = "error" THEN Step("return", "error", resp.text, hist)
  ELSE IF resp.body.candidates = "empty_list" THEN Step("crash", "none", <<>>, hist)
  ELSE IF resp.body.candidates = "missing" \/ resp.body.candidate = "empty"
    THEN Step("return", "response", MsgEmptyCandidate, hist)
  ELSE LET parts == IF resp.body.candidate = "content" THEN resp.body.parts ELSE <<>>
           d == DispatchParts(parts, hist, FALSE, dfs)
       IN IF d.crashed THEN Step("crash", "none", <<>>, d.history)
          ELSE IF d.found THEN Step("continue", "none", <<>>, d.history)
          ELSE AnswerStep(parts, hist)

\* ------------------------------------- the results a fetch can come back with

\* attempt att of the loop is reached when every attempt before it was retried
RECURSIVE AttemptReached(_)
AttemptReached(att) ==
  IF att = 0 THEN TRUE
  ELSE /\ AttemptReached(att - 1)
       /\ ~LoopExhausted(att)
       /\ \E o \in Outcomes : AttemptResult(att - 1, o).retry

Attempts == 0..MAX_RETRIES

\* every value _fetch_gemini_response can return to a caller that has a key
KeyedFetchResults ==
  {AttemptResult(att, o).result :
     <<att, o>> \in {ao \in Attempts \X Outcomes :
                      AttemptReached(ao[1]) /\ ~AttemptResult(ao[1], ao[2]).retry}}
    \cup {ExhaustedResult : ao \in {x \in Attempts \X Outcomes :
                                     /\ AttemptReached(x[1])
                                     /\ AttemptResult(x[1], x[2]).retry
                                     /\ LoopExhausted(x[1] + 1)}}

\* _fetch_gemini_response(api_key, payload), as a set of possible results
FetchGeminiResponse(k) ==
  IF KeyMissing(k) THEN {FetchResult("error", MsgApiKey, NoBody)}
  ELSE KeyedFetchResults

\* ------------------------------------------------------------ the actions

\* the end of "for turn_count in range(5)"
TurnLimitReached(t) == t >= MaxTurns

FullTables == [n \in TableNames |-> TableOf(n)]

ChatIdle ==
  /\ pc = "idle"
  /\ caller = "direct"
  /\ api_key = "key"
  /\ user_query = <<>>
  /\ preprocessed_dataframes = NoArgs
  /\ history = <<>>
  /\ hist0 = <<>>
  /\ turn_count = 0
  /\ gemini_response = NoFetchResult
  /\ result = NoResult
  /\ queries = 0
  /\ sentHttp = FALSE
  /\ fcResponses = 0
  /\ dispatchCount = 0
  /\ turn_hist = <<>>

\* before the first call: who calls, and the tables the caller holds
ChatStart(callers, tables) ==
  /\ pc = "idle"
  /\ caller \in callers
  /\ api_key = "key"
  /\ user_query = <<>>
  /\ preprocessed_dataframes \in tables
  /\ history = <<>>
  /\ hist0 = <<>>
  /\ turn_count = 0
  /\ gemini_response = NoFetchResult
  /\ result = NoResult
  /\ queries = 0
  /\ sentHttp = FALSE
  /\ fcResponses = 0
  /\ dispatchCount = 0
  /\ turn_hist = <<>>

\* the entry of chat_with_agent on the history h
Enter(h, q, k) ==
  /\ user_query' = q
  /\ api_key' = k
  /\ hist0' = h
  /\ history' = AppendUserQuery(h, q)
  /\ turn_hist' = AppendUserQuery(h, q)
  /\ turn_count' = 0
  /\ gemini_response' = NoFetchResult
  /\ result' = NoResult
  /\ queries' = 0
  /\ sentHttp' = FALSE
  /\ fcResponses' = 0
  /\ dispatchCount' = 0
  /\ pc' = "loop"
  /\ UNCHANGED <<caller, preprocessed_dataframes>>
  /\ ChatOnly

\* a caller that keeps the history list calls chat_with_agent on it
Call(q, k) ==
  /\ caller = "direct"
  /\ pc \in {"idle", "returned", "crashed"}
  /\ Len(history) <= MaxCarry
  /\ Enter(history, q, k)

\* app.py: a submitted query is appended to the session's chat history, then
\* chat_with_agent is called on that list
AppSubmit(q) ==
  /\ caller = "app"
  /\ pc \in {"idle", "crashed"}
  /\ Len(history) <= MaxCarry
  /\ Enter(Append(history, UserEntry(q)), q, "key")

Return(r) ==
  /\ result' = r
  /\ pc' = "returned"

\* the loop is over: the turn-limit response
TurnCap ==
  /\ pc = "loop"
  /\ TurnLimitReached(turn_count)
  /\ Return(Result("response", MsgMaxTurns, history))
  /\ UNCHANGED <<caller, api_key, user_query, preprocessed_dataframes, history,
                 hist0, turn_count, gemini_response, queries, sentHttp,
                 fcResponses, dispatchCount, turn_hist>>
  /\ ChatOnly

\* one turn of the loop: the model is queried and the fetch comes back with resp
Turn(resp) ==
  /\ pc = "loop"
  /\ ~TurnLimitReached(turn_count)
  /\ resp.kind = "json" => dispatchCount + NumCalls(resp.body) <= MaxDispatch
  /\ LET st == HandleResponse(resp, history, preprocessed_dataframes)
         calls == IF resp.kind = "json" THEN NumCalls(resp.body) ELSE 0
     IN /\ queries' = queries + 1
        /\ sentHttp' = (sentHttp \/ ~KeyMissing(api_key))
        /\ gemini_response' = resp
        /\ turn_hist' = history
        /\ history' = st.history
        /\ fcResponses' = IF calls > 0 THEN fcResponses + 1 ELSE fcResponses
        /\ dispatchCount' = dispatchCount + calls
        /\ CASE st.next = "return" ->
                  /\ Return(st.result)
                  /\ UNCHANGED turn_count
             [] st.next = "crash" ->
                  /\ pc' = "crashed"
                  /\ UNCHANGED <<result, turn_count>>
             [] OTHER ->
                  /\ pc' = "loop"
                  /\ turn_count' = turn_count + 1
                  /\ UNCHANGED result
  /\ UNCHANGED <<caller, api_key, user_query, preprocessed_dataframes, hist0>>
  /\ ChatOnly

\* app.py after the call: an error is shown as a model message, otherwise the
\* session takes the returned history
AppHandle ==
  /\ caller = "app"
  /\ pc = "returned"
  /\ history' =
       IF result.kind = "error"
         THEN IF Last(history).role = "user"
                THEN Append(history, ModelEntry(<<"Error: ">> \o result.text))
                ELSE history
         ELSE result.history
  /\ pc' = "idle"
  /\ UNCHANGED <<caller, api_key, user_query, preprocessed_dataframes, hist0,
                 turn_count, gemini_response, result, queries, sentHttp,
                 fcResponses, dispatchCount, turn_hist>>
  /\ ChatOnly

Queries == Words

DirectTables == {FullTables, NoArgs}

\* every result the model above can send
AllResults == UNION {FetchGeminiResponse(k) : k \in ApiKeys}

\* the results a session is followed through: an HTTP error, the two crashing
\* shapes aside, an empty candidate, a text answer, one tool call, a tool
\* call followed by a functionCall without a name
SessionBodies ==
  {Body("empty_list", "none", <<>>), Body("present", "empty", <<>>)}
    \cup {Body("present", "content", <<TextPart(t)>>) : t \in Words}
    \cup {Body("present", "content", <<CallPart("calculate_velocity_trend", NoArgs)>>)}
    \cup {Body("present", "content", <<CallPart("calculate_velocity_trend", NoArgs),
                                       CallPart(NoName, NoArgs)>>)}

SessionResults ==
  {r \in AllResults :
     \/ r.kind = "json" /\ r.body \in SessionBodies
     \/ r.kind = "error" /\ r.text \in {MsgApiKey, MsgHttpError(404)}}

\* ------------------------------------------------- load_and_process_data

\* A cell that is ordered or searched as text is a sequence of characters:
\* "S10" is written <<"S", "1", "0">>. An empty cell of a CSV file
\* is read as NaN.
NaN == <<"NaN">>

\* the code points of the characters the tables use
CharCode ==
  [c \in {"0", "1", "2", "3", "4", "5", "6", "A", "I", "P", "R", "S", "T", "U",
          "a", "b", "d", "e", "i", "k", "n", "o", "r", "s", "u"} |->
     CASE c = "0" -> 48 [] c = "1" -> 49 [] c = "2" -> 50 [] c = "3" -> 51
       [] c = "4" -> 52 [] c = "5" -> 53 [] c = "6" -> 54
       [] c = "a" -> 97 [] c = "b" -> 98 [] c = "n" -> 110
       [] c = "A" -> 65 [] c = "I" -> 73 [] c = "P" -> 80 [] c = "R" -> 82
       [] c = "S" -> 83 [] c = "T" -> 84 [] c = "U" -> 85 [] c = "d" -> 100
       [] c = "e" -> 101 [] c = "i" -> 105 [] c = "k" -> 107 [] c = "o" -> 111
       [] c = "r" -> 114 [] c = "s" -> 115 [] OTHER -> 117]

Digits == {"0", "1", "2", "3", "4", "5", "6"}

DigitValue(c) == CharCode[c] - 48

\* s < t for two strings, as Python and pandas order them
RECURSIVE StrLess(_, _)
StrLess(s, t) ==
  IF t = <<>> THEN FALSE
  ELSE IF s = <<>> THEN TRUE
  ELSE IF Head(s) = Head(t) THEN StrLess(Tail(s), Tail(t))
  ELSE CharCode[Head(s)] < CharCode[Head(t)]

\* re.search(r'\d+', s).group(): the first maximal run of digits of s, <<>>
\* when the search finds nothing
RECURSIVE DigitsFrom(_)
DigitsFrom(s) ==
  IF s = <<>> \/ Head(s) \notin Digits THEN <<>>
  ELSE <<Head(s)>> \o DigitsFrom(Tail(s))

RECURSIVE FirstDigitRun(_)
FirstDigitRun(s) ==
  IF s = <<>> THEN <<>>
  ELSE IF Head(s) \in Digits THEN DigitsFrom(s)
  ELSE FirstDigitRun(Tail(s))

\* int(ds) of a run of decimal digits
RECURSIVE IntOf(_)
IntOf(ds) ==
  IF ds = <<>> THEN 0
  ELSE 10 * IntOf(SubSeq(ds, 1, Len(ds) - 1)) + DigitValue(ds[Len(ds)])

HasSprintNumberNotNaN(x) == x # NaN

\* pd.notna(x) and re.search(r'\d+', str(x))
HasSprintNumber(x) == x # NaN /\ FirstDigitRun(x) # <<>>

\* the integer the lambdas of lines 31 and 62 take from a sprint identifier
SprintNumber(x) == IntOf(FirstDigitRun(x))

\* a stable sort of the pairs <<key, value>> of s by their integer keys
RECURSIVE InsertByKey(_, _)
InsertByKey(x, s) ==
  IF s = <<>> THEN <<x>>
  ELSE IF x[1] < Head(s)[1] THEN <<x>> \o s
  ELSE <<Head(s)>> \o InsertByKey(x, Tail(s))

RECURSIVE SortedByKey(_)
SortedByKey(s) ==
  IF s = <<>> THEN <<>>
  ELSE InsertByKey(s[Len(s)], SortedByKey(SubSeq(s, 1, Len(s) - 1)))

\* the strings of s in lexicographic order
RECURSIVE InsertByText(_, _)
InsertByText(x, s) ==
  IF s = <<>> THEN <<x>>
  ELSE IF StrLess(x, Head(s)) THEN <<x>> \o s
  ELSE <<Head(s)>> \o InsertByText(x, Tail(s))

RECURSIVE SortedByText(_)
SortedByText(s) ==
  IF s = <<>> THEN <<>>
  ELSE InsertByText(s[Len(s)], SortedByText(SubSeq(s, 1, Len(s) - 1)))

\* Series.unique(): the values of s in the order of their first appearance
RECURSIVE Unique(_)
Unique(s) ==
  IF s = <<>> THEN <<>>
  ELSE LET before == Unique(SubSeq(s, 1, Len(s) - 1)) IN
    IF s[Len(s)] \in Range(before) THEN before ELSE Append(before, s[Len(s)])

RECURSIVE SumSeq(_)
SumSeq(s) == IF s = <<>> THEN 0 ELSE Head(s) + SumSeq(Tail(s))

\* a file handed to load_and_process_data: whether read_csv can read it, the
\* columns of its header row, and its rows
File(readable, columns, rows) ==
  [readable |-> readable, columns |-> columns, rows |-> rows]

NoFile == File(FALSE, {}, <<>>)

required_jira_cols == <<"StoryPoints", "Type", "Status", "SprintID", "Assignee">>
required_defects_cols == <<"RaisedIn", "Status", "Phase">>
required_raid_cols == <<"Type", "Status", "Owner", "Target Date">>

MissingFirstOnly(required, df) ==
  LET absent == SelectSeq(required, LAMBDA col : col \notin df.columns)
  IN SubSeq(absent, 1, 1)

\* [col for col in required if col not in df.columns]
missing_cols(required, df) == SelectSeq(required, LAMBDA col : col \notin df.columns)

\* the results of load_and_process_data: an error value, the metrics, or an
\* exception that leaves the function
DataError(label, cols) == [kind |-> "error", label |-> label, missing |-> cols]

DataRaised(exc) == [kind |-> "raised", exception |-> exc]

NoDataResult == [kind |-> "none"]

DataIdle ==
  /\ dpc = "idle"
  /\ jira_file = NoFile
  /\ defects_file = NoFile
  /\ raid_file = NoFile
  /\ data_result = NoDataResult

\* --- the issues table

\* a row of the issues table; the StoryPoints cell is <<n>>, or <<>> when empty
Issue(points, type, status, sprint, assignee) ==
  [StoryPoints |-> points, Type |-> type, Status |-> status,
   SprintID |-> sprint, Assignee |-> assignee]

\* df_jira['StoryPoints'].fillna(0).astype(int)
FillPoints(cell) == IF Len(cell) = 0 THEN 0 ELSE cell[1]

\* the second components of a sequence of pairs
Seconds(pairs) == [i \in DOMAIN pairs |-> pairs[i][2]]

\* lines 27-35: story points filled, rows without a sprint number dropped,
\* the rest sorted by sprint number (rows of one number keep their order)
CleanJira(rows) ==
  LET filled == [i \in DOMAIN rows |->
                   [StoryPoints |-> FillPoints(rows[i].StoryPoints),
                    Type |-> rows[i].Type, Status |-> rows[i].Status,
                    SprintID |-> rows[i].SprintID, Assignee |-> rows[i].Assignee]]
      kept == SelectSeq(filled, LAMBDA r : HasSprintNumber(r.SprintID))
      numbered == [i \in DOMAIN kept |->
                     [StoryPoints |-> kept[i].StoryPoints,
                      Type |-> kept[i].Type, Status |-> kept[i].Status,
                      SprintID |-> kept[i].SprintID, Assignee |-> kept[i].Assignee,
                      SprintNumeric |-> SprintNumber(kept[i].SprintID)]]
  IN Seconds(SortedByKey([i \in DOMAIN numbered |->
                            <<numbered[i].SprintNumeric, numbered[i]>>]))

IssuesOfAnyType(df) == df

\* df_jira[df_jira['Type'] == 'Story']
StoriesOf(df) == SelectSeq(df, LAMBDA r : r.Type = "Story")

\* df_jira_stories[df_jira_stories['Status'] == 'Done']
DoneOf(df) == SelectSeq(df, LAMBDA r : r.Status = "Done")

\* the key of the sort of line 62
SprintSortKey(x) == IF HasSprintNumber(x) THEN SprintNumber(x) ELSE 0

\* lines 60-63
UniqueSprintsSorted(df) ==
  LET ids == Unique([i \in DOMAIN df |-> df[i].SprintID])
  IN Seconds(SortedByKey([i \in DOMAIN ids |-> <<SprintSortKey(ids[i]), ids[i]>>]))

\* df[df['SprintID'] == sprint]
InSprint(df, sprint) == SelectSeq(df, LAMBDA r : r.SprintID = sprint)

\* df[df['SprintID'] == sprint]['StoryPoints'].sum()
PointsIn(df, sprint) ==
  SumSeq([i \in DOMAIN InSprint(df, sprint) |-> InSprint(df, sprint)[i].StoryPoints])

\* pd.merge(left, right, on=key, how='outer'): the keys of the merged rows.
\* Which order the rows come in depends on the pandas release: the keys in
\* lexicographic order (sorts), or in the order of their first appearance
OuterMergeKeys(left_keys, right_keys, sorts) ==
  IF sorts THEN SortedByText(Unique(left_keys \o right_keys))
  ELSE Unique(left_keys \o right_keys)

OuterMergeSorts == BOOLEAN

\* the value a merged row takes from one side: the side's value under the
\* key, or NaN filled with 0 when the side has no row of that key
SideValue(side, key) == IF key \in DOMAIN side THEN side[key] ELSE 0

\* lines 68-83: committed and completed points per sprint, merged
CompletionData(sprints, stories, done, sorts) ==
  LET committed == [sp \in Range(sprints) |-> PointsIn(stories, sp)]
      completed == [sp \in Range(sprints) |-> PointsIn(done, sp)]
      keys == OuterMergeKeys(sprints, sprints, sorts)
  IN [i \in DOMAIN keys |->
        [SprintID |-> keys[i],
         CommittedPoints |-> SideValue(committed, keys[i]),
         CompletedPoints |-> SideValue(completed, keys[i])]]

\* --- the defects table

Defect(raised, status, phase) == [RaisedIn |-> raised, Status |-> status, Phase |-> phase]

\* df_defects['RaisedIn'].astype(str)
AsStr(cell) == IF cell = NaN THEN <<"n", "a", "n">> ELSE cell

\* df_defects[df_defects['RaisedIn'] == sprint].shape[0]
DefectCount(defects, sprint) ==
  Len(SelectSeq(defects, LAMBDA d : AsStr(d.RaisedIn) = sprint))

RatioZeroWhenNoStory(a, b) ==
  IF b = 0 THEN [defined |-> TRUE, num |-> 0, den |-> 1]
  ELSE [defined |-> TRUE, num |-> a, den |-> b]

\* a / b.replace(0, np.nan): NaN when the divisor is 0
Ratio(a, b) ==
  IF b = 0 THEN [defined |-> FALSE, num |-> 0, den |-> 0]
  ELSE [defined |-> TRUE, num |-> a, den |-> b]

\* lines 98-115: density_data_df
DensityFrame(sprints, stories, defects, sorts) ==
  LET defect_counts == [sp \in Range(sprints) |-> DefectCount(defects, sp)]
      story_counts == [sp \in Range(sprints) |-> Len(InSprint(stories, sp))]
      keys == OuterMergeKeys(sprints, sprints, sorts)
  IN [i \in DOMAIN keys |->
        [RaisedIn |-> keys[i],
         DefectCount |-> SideValue(defect_counts, keys[i]),
         StoryCount |-> SideValue(story_counts, keys[i]),
         DefectDensity |-> Ratio(SideValue(defect_counts, keys[i]),
                                 SideValue(story_counts, keys[i]))]]

\* line 116: density_data_df[['RaisedIn', 'DefectCount', 'StoryCount']]
DensityData(frame) ==
  [i \in DOMAIN frame |->
     [RaisedIn |-> frame[i].RaisedIn, DefectCount |-> frame[i].DefectCount,
      StoryCount |-> frame[i].StoryCount]]

\* the keys groupby(column) makes its groups for: the values of the column
\* that are not NaN, in lexicographic order
GroupKeys(cells) == SortedByText(Unique(SelectSeq(cells, LAMBDA c : c # NaN)))

\* lines 120-121: open defects counted by phase
StageData(defects) ==
  LET open == SelectSeq(defects, LAMBDA d : d.Status = "Open")
      phases == GroupKeys([i \in DOMAIN open |-> open[i].Phase])
  IN [i \in DOMAIN phases |->
        [Phase |-> phases[i],
         Count |-> Len(SelectSeq(open, LAMBDA d : d.Phase = phases[i]))]]

\* --- capacity

SprintNumbersUnwindowed(df) == {df[i].SprintNumeric : i \in DOMAIN df}

\* line 87: sorted(df_jira['SprintNumeric'].unique(), reverse=True)[:5]
LatestSprintNumbers(df) ==
  {n \in {df[i].SprintNumeric : i \in DOMAIN df} :
     Cardinality({m \in {df[i].SprintNumeric : i \in DOMAIN df} : m > n}) < CapacityWindow}

\* lines 88-90: the rows of the sprints that carry one of the latest numbers
RecentJira(df) ==
  LET latest_sprint_names ==
        {df[i].SprintID : i \in {j \in DOMAIN df :
                                    df[j].SprintNumeric \in LatestSprintNumbers(df)}}
  IN SelectSeq(df, LAMBDA r : r.SprintID \in latest_sprint_names)

\* lines 92-95: the load of every assignee of the recent rows, the highest
\* load first (assignees of one load keep the order of their names)
CapacityData(df) ==
  LET recent == RecentJira(df)
      assignees == GroupKeys([i \in DOMAIN recent |-> recent[i].Assignee])
      load(a) == SumSeq([i \in DOMAIN SelectSeq(recent, LAMBDA r : r.Assignee = a) |->
                           SelectSeq(recent, LAMBDA r : r.Assignee = a)[i].StoryPoints])
      records == [i \in DOMAIN assignees |->
                    [Assignee |-> assignees[i], Load |-> load(assignees[i]),
                     AssumedCapacity |-> AssumedCapacity]]
  IN Seconds(SortedByKey([i \in DOMAIN records |-> <<0 - records[i].Load, records[i]>>]))

\* --- the RAID table

\* a row of the RAID table; Type and Status are written as characters
RaidItem(type, status, owner, target) ==
  [Type |-> type, Status |-> status, Owner |-> owner, TargetDate |-> target]

StatusOpen == <<"O", "p", "e", "n">>
StatusClosed == <<"C", "l", "o", "s", "e", "d">>

\* sub in s, for two strings
IsSubstring(sub, s) ==
  \E i \in 0..(Len(s) - Len(sub)) : SubSeq(s, i + 1, i + Len(sub)) = sub

\* the dates the target date cells are written with, as yyyymmdd
Calendar ==
  [d \in {"2000-01-01", "2999-01-01"} |->
     IF d = "2000-01-01" THEN 20000101 ELSE 29990101]

\* pd.to_datetime('today')
Today == 20261101

ToDatetimeEpoch(cell) == IF cell \in DOMAIN Calendar THEN <<Calendar[cell]>> ELSE <<19700101>>

\* pd.to_datetime(cell, errors='coerce'): <<day>>, or <<>> (NaT) for an
\* empty cell and for a text that is no date
ToDatetime(cell) == IF cell \in DOMAIN Calendar THEN <<Calendar[cell]>> ELSE <<>>

\* lines 136-142
get_raid_status_display(row) ==
  IF IsSubstring(StatusOpen, row.Status) \/ IsSubstring(<<"N", "e", "w">>, row.Status)
    THEN "Open"
  ELSE IF Len(row.DueDate) # 0 /\ row.DueDate[1] < Today THEN "Overdue"
  ELSE "Active"

\* lines 162-164: the status of a category from its counts
RaidStatus(open, overdue) ==
  LET default == "healthy"
      after163 == IF overdue > 0 THEN "critical" ELSE default
  IN IF open > 0 THEN "warning" ELSE after163

\* line 55: df_raid with its DueDate column
DatedRaid(rows) ==
  [i \in DOMAIN rows |->
     [Type |-> rows[i].Type, Status |-> rows[i].Status,
      DueDate |-> ToDatetime(rows[i].TargetDate)]]

RaidItemsOfAnyStatus(df) == df

\* line 151: df_raid[df_raid['Status'] == 'Open']
OpenRaid(df) == SelectSeq(df, LAMBDA r : r.Status = StatusOpen)

\* lines 151-167
RaidData(rows) ==
  LET dated == DatedRaid(rows)
      open == OpenRaid(dated)
      types == GroupKeys([i \in DOMAIN open |-> open[i].Type])
      group(t) == SelectSeq(open, LAMBDA r : r.Type = t)
      shown(t, d) == Len(SelectSeq(group(t), LAMBDA r : get_raid_status_display(r) = d))
  IN [i \in DOMAIN types |->
        [Type |-> types[i],
         Status |-> RaidStatus(shown(types[i], "Open"), shown(types[i], "Overdue")),
         Total |-> Len(group(types[i])),
         Open |-> shown(types[i], "Open")]]

\* --- the function

\* the returned metrics, with the tables df_jira, df_raid and density_data_df
\* as they are at the return
Metrics(df_jira, df_raid, completion, capacity, density_df, stage, raid) ==
  [kind |-> "metrics", df_jira |-> df_jira, df_raid |-> df_raid,
   velocity |-> completion, completion |-> completion, capacity |-> capacity,
   density_data_df |-> density_df, density |-> DensityData(density_df),
   stage |-> stage, raid |-> raid]

\* load_and_process_data(jira_file, defects_file, raid_file) under a pandas
\* whose outer merge sorts its keys, or does not
LoadAndProcessData(jira, defects, raid, sorts) ==
  IF ~(jira.readable /\ defects.readable /\ raid.readable)
    THEN DataError("load", <<>>)
  ELSE IF missing_cols(required_jira_cols, jira) # <<>>
    THEN DataError("JIRA", missing_cols(required_jira_cols, jira))
  ELSE IF missing_cols(required_defects_cols, defects) # <<>>
    THEN DataError("Defects", missing_cols(required_defects_cols, defects))
  ELSE IF missing_cols(required_raid_cols, raid) # <<>>
    THEN DataError("RAID", missing_cols(required_raid_cols, raid))
  ELSE LET df_jira == CleanJira(jira.rows)
           stories == StoriesOf(df_jira)
           sprints == UniqueSprintsSorted(df_jira)
       IN IF sprints = <<>>
            \* pd.DataFrame([]) has no column 'SprintID' to merge on
            THEN DataRaised("KeyError")
            ELSE Metrics(df_jira,
                         DatedRaid(raid.rows),
                         CompletionData(sprints, stories, DoneOf(stories), sorts),
                         CapacityData(df_jira),
                         DensityFrame(sprints, stories, defects.rows, sorts),
                         StageData(defects.rows),
                         RaidData(raid.rows))

\* --- one call of load_and_process_data

DataInit(jiras, defectss, raids) ==
  /\ dpc = "call"
  /\ jira_file \in jiras
  /\ defects_file \in defectss
  /\ raid_file \in raids
  /\ data_result = NoDataResult

\* the call ends with a result of the kind
DataEnds(kind) ==
  /\ \E sorts \in OuterMergeSorts :
       /\ LoadAndProcessData(jira_file, defects_file, raid_file, sorts).kind = kind
       /\ data_result' = LoadAndProcessData(jira_file, defects_file, raid_file, sorts)
  /\ UNCHANGED <<jira_file, defects_file, raid_file>>

\* lines 16-17, 25, 44, 52: an error value is returned
DataErrorReturn ==
  /\ dpc = "call"
  /\ DataEnds("error")
  /\ dpc' = "returned"
  /\ DataOnly

\* line 170: the metrics are returned
DataMetrics ==
  /\ dpc = "call"
  /\ DataEnds("metrics")
  /\ dpc' = "returned"
  /\ DataOnly

\* an exception leaves the function
DataRaises ==
  /\ dpc = "call"
  /\ DataEnds("raised")
  /\ dpc' = "raised"
  /\ DataOnly

\* ---------------------------------------------------------- specifications

\* one call of chat_with_agent on an empty history, every response shape
Init ==
  ChatStart({"direct"}, {FullTables}) /\ FetchIdle /\ ToolIdle /\ DataIdle /\ RegistryIdle

Next ==
  \/ \E k \in ApiKeys : pc = "idle" /\ Call(<<"a">>, k)
  \/ TurnCap
  \/ \E resp \in FetchGeminiResponse(api_key) : Turn(resp)

Spec == Init /\ [][Next]_vars

\* a session of calls, each on the history the one before left
InitSession ==
  /\ ChatStart({"direct"}, DirectTables) \/ ChatStart({"app"}, {FullTables})
  /\ FetchIdle
  /\ ToolIdle
  /\ DataIdle
  /\ RegistryIdle

NextSession ==
  \/ \E q \in Queries, k \in ApiKeys : Call(q, k)
  \/ \E q \in Queries : AppSubmit(q)
  \/ TurnCap
  \/ \E resp \in FetchGeminiResponse(api_key) \cap SessionResults : Turn(resp)
  \/ AppHandle

SpecSession == InitSession /\ [][NextSession]_vars

\* one call of _fetch_gemini_response
InitFetch == FetchInit /\ ChatIdle /\ ToolIdle /\ DataIdle /\ RegistryIdle

NextFetch ==
  \/ FetchNoKey
  \/ FetchEnter
  \/ \E o \in Outcomes : FetchRetry(o)
  \/ \E o \in Outcomes : FetchReturn(o)

SpecFetch == InitFetch /\ [][NextFetch]_vars

\* one call of _execute_tool
InitTool == ToolInit /\ ChatIdle /\ FetchIdle /\ DataIdle /\ RegistryIdle

NextTool == ToolNotFound \/ ToolCall

SpecTool == InitTool /\ [][NextTool]_vars

\* one call of Tool.get_spec on a Tool object, or one of get_all_tool_specs
ParamNames == {"df_jira", "df_defects", "num_sprints"}
SchemaKeys == {"type", "default", "optional"}

SchemaValue(k) ==
  CASE k = "type" -> "integer"
    [] k = "default" -> "5"
    [] OTHER -> "True"

Schemas == {[k \in S |-> SchemaValue(k)] : S \in SUBSET SchemaKeys}

\* dicts of at most MaxParams declared parameters: the keys of a dict differ
ParameterDicts ==
  {ps \in SeqsUpTo({Param(n, sch) : n \in ParamNames, sch \in Schemas}, MaxParams) :
     \A i, j \in DOMAIN ps : i # j => ps[i].name # ps[j].name}

SampleTools ==
  {Tool(n, "sample", ps) :
     n \in {"calculate_velocity_trend", "sample_tool"}, ps \in ParameterDicts}
    \cup Range(TOOL_REGISTRY)

InitRegistry ==
  /\ \/ gpc = "get_spec" /\ self \in SampleTools
     \/ gpc = "get_all_tool_specs" /\ self = NoTool
  /\ spec_result = NoSpec
  /\ all_specs = <<>>
  /\ ChatIdle /\ FetchIdle /\ ToolIdle /\ DataIdle

NextRegistry == GetSpec \/ GetAllToolSpecs

SpecRegistry == InitRegistry /\ [][NextRegistry]_vars

\* the cells and rows the tables are drawn from
Ann == <<"a", "n", "n">>
Bob == <<"b", "o", "b">>
S2 == <<"S", "2">>
S10 == <<"S", "1", "0">>
Backlog == <<"S">>
SprintCells == {S2, S10, Backlog, NaN}
PointCells == {<<>>, <<3>>, <<5>>}
IssueRows ==
  {Issue(p, t, st, sp, Ann) :
     p \in PointCells, t \in {"Story", "Bug"}, st \in {"Done", "ToDo"},
     sp \in SprintCells}

UAT == <<"U", "A", "T">>
Prod == <<"P", "r", "o", "d">>
DefectRows ==
  {Defect(r, st, ph) :
     r \in {S2, S10, NaN}, st \in {"Open", "Closed"}, ph \in {UAT, Prod, NaN}}

Risk == <<"R", "i", "s", "k">>
IssueCategory == <<"I", "s", "s", "u", "e">>
DateCells == {"2000-01-01", "2999-01-01", "tbd", ""}
RaidRows ==
  {RaidItem(t, st, "ann", d) :
     t \in {Risk, IssueCategory}, st \in {StatusOpen, StatusClosed}, d \in DateCells}

\* files that are read and carry every required column
FullFile(required, rows) == File(TRUE, Range(required), rows)

SomeIssues == <<Issue(<<3>>, "Bug", "Done", S2, Ann), Issue(<<5>>, "Story", "Done", S10, Ann)>>
SomeDefects == <<Defect(S2, "Open", UAT)>>
SomeRaid == <<RaidItem(Risk, StatusOpen, "ann", "2000-01-01")>>

\* one call on files that may be unreadable or lack columns
InitColumns ==
  /\ DataInit({File(rd, cols, SomeIssues) :
                 rd \in BOOLEAN, cols \in SUBSET Range(required_jira_cols)},
              {File(rd, cols, SomeDefects) :
                 rd \in BOOLEAN, cols \in SUBSET Range(required_defects_cols)},
              {File(rd, cols, SomeRaid) :
                 rd \in BOOLEAN, cols \in SUBSET Range(required_raid_cols)})
  /\ ChatIdle /\ FetchIdle /\ ToolIdle /\ RegistryIdle

NextColumns == DataErrorReturn \/ DataMetrics

SpecColumns == InitColumns /\ [][NextColumns]_vars

\* one call on every issues table of up to MaxIssues rows
InitIssues ==
  /\ DataInit({FullFile(required_jira_cols, rows) : rows \in SeqsUpTo(IssueRows, MaxIssues)},
              {FullFile(required_defects_cols, SomeDefects)},
              {FullFile(required_raid_cols, SomeRaid)})
  /\ ChatIdle /\ FetchIdle /\ ToolIdle /\ RegistryIdle

NextIssues == DataMetrics \/ DataRaises

SpecIssues == InitIssues /\ [][NextIssues]_vars

\* one call on every defects table of up to MaxDefects rows
InitDefects ==
  /\ DataInit({FullFile(required_jira_cols, rows) :
                 rows \in {SomeIssues, <<>>, <<Issue(<<>>, "Story", "ToDo", S2, Ann)>>}},
              {FullFile(required_defects_cols, rows) : rows \in SeqsUpTo(DefectRows, MaxDefects)},
              {FullFile(required_raid_cols, SomeRaid)})
  /\ ChatIdle /\ FetchIdle /\ ToolIdle /\ RegistryIdle

NextDefects == DataMetrics \/ DataRaises

SpecDefects == InitDefects /\ [][NextDefects]_vars

\* one call on every RAID table of up to MaxRaidItems rows
InitRaid ==
  /\ DataInit({FullFile(required_jira_cols, SomeIssues)},
              {FullFile(required_defects_cols, SomeDefects)},
              {FullFile(required_raid_cols, rows) : rows \in SeqsUpTo(RaidRows, MaxRaidItems)})
  /\ ChatIdle /\ FetchIdle /\ ToolIdle /\ RegistryIdle

NextRaid == DataMetrics

SpecRaid == InitRaid /\ [][NextRaid]_vars

\* one call on issues tables of up to six sprints S1..S6: each sprint has no
\* issue, or one issue of Ann, of Bob, or without assignee; the issue of the
\* k-th sprint has 2^(k-1) story points, and the latest sprint comes first
SprintDigits == <<"1", "2", "3", "4", "5", "6">>
SprintCell(k) == <<"S", SprintDigits[k]>>
NoRow == <<>>
AssigneeChoices == [DOMAIN SprintDigits -> {NoRow, Ann, Bob, NaN}]
CapacityRows(choice) ==
  SelectSeq([i \in DOMAIN SprintDigits |->
               LET k == Len(SprintDigits) + 1 - i IN
                 Issue(<<2 ^ (k - 1)>>, IF k % 2 = 0 THEN "Bug" ELSE "Story", "Done",
                       SprintCell(k), choice[k])],
            LAMBDA r : r.Assignee # NoRow)

InitCapacity ==
  /\ DataInit({FullFile(required_jira_cols, CapacityRows(choice)) : choice \in AssigneeChoices},
              {FullFile(required_defects_cols, SomeDefects)},
              {FullFile(required_raid_cols, SomeRaid)})
  /\ ChatIdle /\ FetchIdle /\ ToolIdle /\ RegistryIdle

NextCapacity == DataMetrics \/ DataRaises

SpecCapacity == InitCapacity /\ [][NextCapacity]_vars

\* ------------------------------------------------------------------ claims

\* the parts of a body the turn loop runs over
PartsOf(body) == IF body.candidate = "content" THEN body.parts ELSE <<>>

\* the response of the last turn was a JSON body with a first candidate
AnsweredWith(P(_)) ==
  /\ gemini_response.kind = "json"
  /\ gemini_response.body.candidates = "present"
  /\ P(PartsOf(gemini_response.body))

HasCall(ps) == \E i \in DOMAIN ps : IsCall(ps[i])
HasText(ps) == \E i \in DOMAIN ps : IsText(ps[i])
TextOnly(ps) == HasText(ps) /\ ~HasCall(ps)
Neither(ps) == ~HasText(ps) /\ ~HasCall(ps)

\* the history right after the entry of the call
EntryHistory ==
  IF hist0 # <<>> /\ Last(hist0).role = "user" /\ Last(hist0).text = user_query
    THEN hist0
    ELSE Append(hist0, UserEntry(user_query))

\* C1: in one chat_with_agent call the model is queried at most 5 times, and
\* a call in which 5 responses held tool-call requests ends by returning the
\* turn-limit response with the history that holds every tool result
C1_TurnCapReturned ==
  /\ queries <= 5
  /\ (fcResponses = 5 /\ pc # "loop") =>
       /\ pc = "returned"
       /\ result = Result("response", MsgMaxTurns, history)
       /\ Len(history) = Len(EntryHistory) + dispatchCount
       /\ \A i \in (Len(EntryHistory) + 1)..Len(history) : history[i].role = "function"

\* C2: every chat_with_agent call ends by returning a value with the history
\* and a 'response' or an 'error' text; no response shape makes it raise
C2_AlwaysReturns ==
  /\ pc # "crashed"
  /\ pc = "returned" =>
       /\ result.kind \in {"response", "error"}
       /\ result.history = history

\* the function-role entries the calls among ps ask for, in the order asked
RECURSIVE RequestedEntries(_, _)
RequestedEntries(ps, tables) ==
  IF ps = <<>> THEN <<>>
  ELSE LET k == Len(ps)
           before == RequestedEntries(SubSeq(ps, 1, k - 1), tables)
       IN IF IsCall(ps[k])
            THEN Append(before,
                        FunctionEntry(ps[k].name,
                                      ExecuteTool(ps[k].name, ps[k].args, tables)))
            ELSE before

\* C3: a turn whose response holds n >= 1 tool-call requests appends exactly
\* the n function-role entries of those requests, in the order requested, and
\* goes on to the next turn without returning
C3_DispatchInOrder ==
  [][(pc = "loop" /\ queries' = queries + 1 /\ gemini_response'.kind = "json"
        /\ HasCall(PartsOf(gemini_response'.body)))
      => /\ history' = history \o RequestedEntries(PartsOf(gemini_response'.body),
                                                   preprocessed_dataframes)
         /\ pc' = "loop"
         /\ turn_count' = turn_count + 1
         /\ result' = result]_vars

\* ts joined by single spaces, built from the last text backwards
RECURSIVE SpaceJoined(_)
SpaceJoined(ts) ==
  IF Len(ts) = 1 THEN ts[1]
  ELSE SpaceJoined(SubSeq(ts, 1, Len(ts) - 1)) \o <<" ">> \o ts[Len(ts)]

TextsOf(ps) == LET idx == {i \in DOMAIN ps : IsText(ps[i])}
                   nth[k \in 0..Len(ps)] ==
                     IF k = 0 THEN <<>>
                     ELSE IF k \in idx THEN Append(nth[k - 1], ps[k].text)
                     ELSE nth[k - 1]
               IN nth[Len(ps)]

\* C4: a response with at least one text part and no tool-call request ends
\* the call in that turn: one model-role entry with the texts joined in
\* order by single spaces is appended, and that text is returned as
\* 'response' with the updated history
C4_TextAnswer ==
  AnsweredWith(TextOnly) =>
    LET text == SpaceJoined(TextsOf(PartsOf(gemini_response.body))) IN
      /\ pc = "returned"
      /\ queries = turn_count + 1
      /\ history = Append(turn_hist, ModelEntry(text))
      /\ result = Result("response", text, history)

C4_Witness ==
  /\ AnsweredWith(TextOnly)
  /\ pc = "returned"
  /\ turn_count = 1
  /\ result.text = <<"a", " ", "b">>

\* a body with an empty first candidate (or none given), or with content that
\* holds neither a text part nor a tool-call request
EmptyResponse ==
  /\ gemini_response.kind = "json"
  /\ \/ gemini_response.body.candidates = "missing"
     \/ /\ gemini_response.body.candidates = "present"
        /\ \/ gemini_response.body.candidate \in {"empty", "no_content"}
           \/ Neither(PartsOf(gemini_response.body))

C6_UserQueryOnce ==
  (pc = "loop" /\ queries = 0) => history = EntryHistory

\* C7: while every attempt meets a retried status, the k-th retry is slept
\* for 2^(k-1) seconds; such a call sends exactly 5 requests, sleeps 1, 2, 4, 8
\* and returns an 'AI API Error' value; a successful attempt is the last
\* request and its body is what is returned
C7_RetrySchedule ==
  /\ requests <= 5
  /\ requests = Len(seen)
  /\ \A k \in DOMAIN sleeps : sleeps[k] = 2 ^ (k - 1)
  /\ \A i \in DOMAIN seen : seen[i].kind = "ok" => (i = Len(seen) /\ fpc = "returned")
  /\ (fpc = "returned" /\ seen # <<>>
        /\ \A i \in DOMAIN seen :
             seen[i].kind = "http_error" /\ seen[i].status \in {429, 500, 503})
       => /\ requests = 5
          /\ sleeps = <<1, 2, 4, 8>>
          /\ fetch_result.kind = "error"
          /\ fetch_result.text = MsgHttpError(seen[5].status)
  /\ (fpc = "returned" /\ seen # <<>> /\ Last(seen).kind = "ok")
       => fetch_result = FetchResult("json", <<>>, Last(seen).body)

C7_Witness ==
  /\ fpc = "returned"
  /\ requests = 5
  /\ sleeps = <<1, 2, 4, 8>>
  /\ \A i \in DOMAIN seen : seen[i].kind = "http_error"
  /\ fetch_result.text = MsgHttpError(503)

\* attempt i was followed by another attempt
Retried(i) == i < Len(seen) \/ fpc = "attempt"

\* the HTTP error statuses in S are retried while attempts remain, every other
\* one is returned by the attempt that met it, with no sleep after it
RetriesExactly(S) ==
  \A i \in DOMAIN seen :
    seen[i].kind = "http_error" =>
      /\ Retried(i) <=> (seen[i].status \in S /\ i < 5)
      /\ ~Retried(i) =>
           /\ requests = i
           /\ Len(sleeps) = i - 1
           /\ fetch_result = FetchResult("error", MsgHttpError(seen[i].status), NoBody)

\* C8 as claimed: an HTTP error is retried exactly when its status is 429 or
\* a 5xx status and attempts remain
C8_RetriesServerErrorClass == RetriesExactly({429} \cup (500..599))

\* C8: an HTTP error is retried exactly when its status is 429, 500 or 503
\* and attempts remain; any other HTTP error status, 502 included, is
\* returned as an error value by its one request, with no backoff delay
C8_RetriesListedStatuses == RetriesExactly({429, 500, 503})

C8_Witness ==
  /\ fpc = "returned"
  /\ requests = 1
  /\ seen[1].status = 502
  /\ sleeps = <<>>
  /\ fetch_result.kind = "error"

\* C9: without an API key (None or empty) the call sends no HTTP request,
\* dispatches no tool, and returns the fixed 'API Key required' error with
\* the history after exactly one turn
C9_NoKeyNoRequest ==
  (pc # "idle" /\ api_key \in {"<None>", ""}) =>
    /\ ~sentHttp
    /\ dispatchCount = 0
    /\ pc \in {"loop", "returned"}
    /\ pc = "loop" => queries = 0
    /\ pc = "returned" =>
         /\ queries = 1
         /\ turn_count = 0
         /\ gemini_response = FetchResult("error", MsgApiKey, NoBody)
         /\ history = EntryHistory
         /\ result = Result("error", MsgApiKey, history)

C9_Witness ==
  /\ pc = "returned"
  /\ api_key = ""
  /\ result.text = MsgApiKey

\* C10: each declared parameter of the tool gets the preloaded table of its
\* name if there is one, else the model's value, else the declared default,
\* else nothing; no undeclared name is passed
C10_ParameterPrecedence ==
  (tpc = "returned" /\ tool_name \in ToolNames) =>
    LET tool == TOOL_REGISTRY[tool_name] IN
      /\ DOMAIN call_args \subseteq Range(tool.params)
      /\ \A p \in Range(tool.params) :
           IF p \in DOMAIN tool_pre
             THEN p \in DOMAIN call_args /\ call_args[p] = tool_pre[p]
           ELSE IF p \in DOMAIN tool_args
             THEN p \in DOMAIN call_args /\ call_args[p] = tool_args[p]
           ELSE IF p \in DOMAIN tool.defaults
             THEN p \in DOMAIN call_args /\ call_args[p] = tool.defaults[p]
           ELSE p \notin DOMAIN call_args

C10_Witness ==
  /\ tpc = "returned"
  /\ tool_name = "calculate_capacity_utilization"
  /\ DOMAIN tool_args = {"df_jira", "num_sprints", "extra"}
  /\ "df_jira" \in DOMAIN tool_pre
  /\ call_args = [df_jira |-> "DF_jira", num_sprints |-> tool_args["num_sprints"]]
  /\ tool_args["num_sprints"] = "3"

\* the call part i of ps is reached by the loop over the parts: no functionCall
\* before it lacks its name
Dispatched(ps, i) ==
  /\ IsCall(ps[i])
  /\ ps[i].name # NoName
  /\ \A j \in 1..(i - 1) : IsCall(ps[j]) => ps[j].name # NoName

\* the step is a turn of the loop whose fetch came back with a JSON body
TurnOnBody ==
  /\ pc = "loop"
  /\ queries' = queries + 1
  /\ gemini_response'.kind = "json"

\* the step appends the function entry with output out for the tool name
RecordsOutput(name, out) ==
  \E j \in (Len(history) + 1)..Len(history') : history'[j] = FunctionEntry(name, out)

\* the step leaves the call in its loop, one turn further
ContinuesToNextTurn ==
  /\ pc' = "loop"
  /\ turn_count' = turn_count + 1
  /\ result' = result

\* C11: a turn that dispatches a tool name that is not in TOOL_REGISTRY
\* appends a function entry holding the not-found error with that name, and
\* the call goes on to the next turn
C11_UnknownToolContinues ==
  [][\A i \in DOMAIN PartsOf(gemini_response'.body) :
       LET part == PartsOf(gemini_response'.body)[i] IN
         (TurnOnBody /\ Dispatched(PartsOf(gemini_response'.body), i)
            /\ part.name \notin ToolNames)
         => /\ RecordsOutput(part.name, ToolOutput("not_found", part.name, NoArgs))
            /\ ContinuesToNextTurn]_vars

\* C12: a turn that dispatches a tool whose function raises appends a
\* function entry holding the execution error that names the tool, and the
\* call goes on to the next turn
C12_ToolErrorContinues ==
  [][\A i \in DOMAIN PartsOf(gemini_response'.body) :
       LET part == PartsOf(gemini_response'.body)[i] IN
         (TurnOnBody /\ Dispatched(PartsOf(gemini_response'.body), i)
            /\ part.name \in ToolNames
            /\ ToolFuncRaises(TOOL_REGISTRY[part.name],
                              CallArgs(TOOL_REGISTRY[part.name], part.args,
                                       preprocessed_dataframes)))
         => /\ RecordsOutput(part.name, ToolOutput("exec_error", part.name, NoArgs))
            /\ ContinuesToNextTurn]_vars

\* the required columns the file does not carry
Absent(required, df) == {c \in Range(required) : c \notin df.columns}

\* the three files were read
TablesRead == jira_file.readable /\ defects_file.readable /\ raid_file.readable

MetricNames == {"velocity", "completion", "capacity", "density", "stage", "raid"}

\* the result is the error value labelled for the table, naming exactly the
\* absent required columns of that table
NamesAbsent(label, required, df) ==
  /\ data_result.kind = "error"
  /\ data_result.label = label
  /\ Range(data_result.missing) = Absent(required, df)
  /\ Len(data_result.missing) = Cardinality(Absent(required, df))
  /\ DOMAIN data_result \cap MetricNames = {}

\* C13: the first of the issues, defects and RAID tables that lacks a
\* required column makes the call return the error value labelled for that
\* table, naming every absent column of it and holding no metric; metrics
\* are returned only when no table lacks a required column
C13_MissingColumnsError ==
  (dpc # "call" /\ dpc # "idle" /\ TablesRead) =>
    /\ Absent(required_jira_cols, jira_file) # {} =>
         NamesAbsent("JIRA", required_jira_cols, jira_file)
    /\ (Absent(required_jira_cols, jira_file) = {}
          /\ Absent(required_defects_cols, defects_file) # {}) =>
         NamesAbsent("Defects", required_defects_cols, defects_file)
    /\ (Absent(required_jira_cols, jira_file) = {}
          /\ Absent(required_defects_cols, defects_file) = {}
          /\ Absent(required_raid_cols, raid_file) # {}) =>
         NamesAbsent("RAID", required_raid_cols, raid_file)
    /\ data_result.kind = "metrics" =>
         /\ Absent(required_jira_cols, jira_file) = {}
         /\ Absent(required_defects_cols, defects_file) = {}
         /\ Absent(required_raid_cols, raid_file) = {}

C13_Witness ==
  /\ dpc = "returned"
  /\ TablesRead
  /\ jira_file.columns = Range(required_jira_cols)
  /\ defects_file.columns = {"Status"}
  /\ raid_file.columns = {}
  /\ data_result = DataError("Defects", <<"RaisedIn", "Phase">>)

\* the rows of the issues file
IssuesIn == jira_file.rows

\* the sprint identifiers the rows are written with, and the integer each one
\* embeds
EmbeddedInteger(x) == CASE x = S2 -> 2 [] x = S10 -> 10 [] OTHER -> -1
EmbedsInteger(x) == x \in {S2, S10}

\* how many rows of the sequence satisfy Test
CountRows(rows, Test(_)) == Cardinality({i \in DOMAIN rows : Test(rows[i])})

\* the keys of the sprint-keyed outputs
SprintKeys ==
  Range([i \in DOMAIN data_result.velocity |-> data_result.velocity[i].SprintID])
    \cup Range([i \in DOMAIN data_result.completion |-> data_result.completion[i].SprintID])
    \cup Range([i \in DOMAIN data_result.density |-> data_result.density[i].RaisedIn])

\* C14: every issue whose sprint identifier embeds an integer is kept with
\* that integer as its sprint ordinal; an identifier that embeds none (or an
\* empty cell) is the key of no velocity, completion or density record, and
\* its issues are in no cleaned row
C14_SprintOrdinal ==
  data_result.kind = "metrics" =>
    /\ \A x \in SprintCells :
         IF EmbedsInteger(x)
           THEN /\ CountRows(data_result.df_jira, LAMBDA r : r.SprintID = x)
                     = CountRows(IssuesIn, LAMBDA r : r.SprintID = x)
                /\ \A i \in DOMAIN data_result.df_jira :
                     data_result.df_jira[i].SprintID = x =>
                       data_result.df_jira[i].SprintNumeric = EmbeddedInteger(x)
           ELSE /\ x \notin SprintKeys
                /\ CountRows(data_result.df_jira, LAMBDA r : r.SprintID = x) = 0
    /\ \A k \in SprintKeys : EmbedsInteger(k)

C14_Witness ==
  /\ data_result.kind = "metrics"
  /\ Len(IssuesIn) = 2
  /\ IssuesIn[1].SprintID = Backlog
  /\ IssuesIn[2].SprintID = S10
  /\ Len(data_result.df_jira) = 1
  /\ data_result.df_jira[1].SprintNumeric = 10
  /\ SprintKeys = {S10}

\* the call is over
DataDone == dpc \in {"returned", "raised"}

\* the canonical sprints: the identifiers of the issues that embed an integer
CanonicalSprints == {IssuesIn[i].SprintID : i \in DOMAIN IssuesIn} \cap {S2, S10}

IsStoryIn(r, sp) == r.SprintID = sp /\ r.Type = "Story"
IsDoneStoryIn(r, sp) == IsStoryIn(r, sp) /\ r.Status = "Done"

\* C15: the call returns a completion output that has exactly one record for
\* each canonical sprint (none when there is no such sprint), every record
\* with a committed and a completed figure, zero on the side for which the
\* sprint has no Story issue, or no Done Story issue
C15_CompletionTotal ==
  DataDone =>
    /\ data_result.kind = "metrics"
    /\ LET comp == data_result.completion IN
         /\ Len(comp) = Cardinality(CanonicalSprints)
         /\ {comp[i].SprintID : i \in DOMAIN comp} = CanonicalSprints
         /\ \A i \in DOMAIN comp :
              /\ {"CommittedPoints", "CompletedPoints"} \subseteq DOMAIN comp[i]
              /\ CountRows(IssuesIn, LAMBDA r : IsStoryIn(r, comp[i].SprintID)) = 0
                   => comp[i].CommittedPoints = 0
              /\ CountRows(IssuesIn, LAMBDA r : IsDoneStoryIn(r, comp[i].SprintID)) = 0
                   => comp[i].CompletedPoints = 0

\* the sprint identifiers of the records of an output, in the order listed
VelocityKeys == [i \in DOMAIN data_result.velocity |-> data_result.velocity[i].SprintID]
CompletionKeys == [i \in DOMAIN data_result.completion |-> data_result.completion[i].SprintID]
DensityKeys == [i \in DOMAIN data_result.density |-> data_result.density[i].RaisedIn]

\* the identifiers are listed once each, by ascending embedded integer
AscendingOnce(keys) ==
  \A i, j \in DOMAIN keys :
    i < j => /\ keys[i] # keys[j]
             /\ EmbeddedInteger(keys[i]) <= EmbeddedInteger(keys[j])

\* C16: the velocity, completion and density records are listed by ascending
\* sprint ordinal, S2 before S10, each sprint identifier once
C16_SprintOrder ==
  data_result.kind = "metrics" =>
    /\ AscendingOnce(VelocityKeys)
    /\ AscendingOnce(CompletionKeys)
    /\ AscendingOnce(DensityKeys)

\* the story points an issue is written with, zero for an empty cell
WrittenPoints(r) == IF r.StoryPoints = <<>> THEN 0 ELSE r.StoryPoints[1]

\* the story points of the issues of the file that satisfy Counts, summed
PointsWhere(Counts(_)) ==
  LET upto[k \in 0..Len(IssuesIn)] ==
        IF k = 0 THEN 0
        ELSE upto[k - 1] + (IF Counts(IssuesIn[k]) THEN WrittenPoints(IssuesIn[k]) ELSE 0)
  IN upto[Len(IssuesIn)]

\* C17: the completed figure of a sprint is the sum of the story points of
\* its Done Story issues, the committed figure the sum over all its Story
\* issues; other issue types and empty story point cells add nothing
C17_PointSums ==
  data_result.kind = "metrics" =>
    /\ data_result.velocity = data_result.completion
    /\ \A i \in DOMAIN data_result.completion :
         LET rec == data_result.completion[i] IN
           /\ rec.CompletedPoints = PointsWhere(LAMBDA r : IsDoneStoryIn(r, rec.SprintID))
           /\ rec.CommittedPoints = PointsWhere(LAMBDA r : IsStoryIn(r, rec.SprintID))

C17_Witness ==
  /\ data_result.kind = "metrics"
  /\ IssuesIn = <<Issue(<<5>>, "Story", "Done", S2, Ann),
                  Issue(<<3>>, "Story", "ToDo", S2, Ann)>>
  /\ data_result.completion =
       <<[SprintID |-> S2, CommittedPoints |-> 8, CompletedPoints |-> 5]>>

\* the rows of the defects file
DefectsIn == defects_file.rows

\* C18: when the issues hold a sprint, the call returns a density record for
\* every canonical sprint with the number of defects raised in that sprint
\* and the number of its Story issues; the ratio of a sprint without stories
\* is undefined, that of any other sprint is defects over stories
C18_DensityCounts ==
  (DataDone /\ CanonicalSprints # {}) =>
    /\ data_result.kind = "metrics"
    /\ {data_result.density[i].RaisedIn : i \in DOMAIN data_result.density}
         = CanonicalSprints
    /\ Len(data_result.density) = Len(data_result.density_data_df)
    /\ \A i \in DOMAIN data_result.density_data_df :
         LET row == data_result.density_data_df[i]
             defects == CountRows(DefectsIn, LAMBDA d : d.RaisedIn = row.RaisedIn)
             stories == CountRows(IssuesIn, LAMBDA r : IsStoryIn(r, row.RaisedIn))
         IN /\ row.DefectCount = defects
            /\ row.StoryCount = stories
            /\ data_result.density[i] =
                 [RaisedIn |-> row.RaisedIn, DefectCount |-> defects, StoryCount |-> stories]
            /\ stories = 0 => ~row.DefectDensity.defined
            /\ stories > 0 =>
                 /\ row.DefectDensity.defined
                 /\ row.DefectDensity.num = defects
                 /\ row.DefectDensity.den = stories

C18_Witness ==
  /\ data_result.kind = "metrics"
  /\ IssuesIn = SomeIssues
  /\ DefectsIn = <<Defect(S2, "Open", UAT), Defect(S2, "Closed", Prod)>>
  /\ \E i \in DOMAIN data_result.density_data_df :
       /\ data_result.density_data_df[i].RaisedIn = S2
       /\ data_result.density_data_df[i].StoryCount = 0
       /\ ~data_result.density_data_df[i].DefectDensity.defined
       /\ data_result.density[i].DefectCount = 2

IsOpenDefect(d) == d.Status = "Open"

\* the phases that have an open defect; an empty cell names no phase
OpenPhases == {DefectsIn[i].Phase : i \in {j \in DOMAIN DefectsIn : IsOpenDefect(DefectsIn[j])}}
                \ {NaN}

\* the counts of the stage records, summed
StageTotal ==
  LET upto[k \in 0..Len(data_result.stage)] ==
        IF k = 0 THEN 0 ELSE upto[k - 1] + data_result.stage[k].Count
  IN upto[Len(data_result.stage)]

\* C19: the stage distribution has exactly one record for each phase that has
\* an open defect, counting the open defects of that phase; closed defects
\* add nothing, and the counts add up to the number of open defects
C19_StageDistribution ==
  data_result.kind = "metrics" =>
    /\ Len(data_result.stage) = Cardinality(OpenPhases)
    /\ {data_result.stage[i].Phase : i \in DOMAIN data_result.stage} = OpenPhases
    /\ \A i \in DOMAIN data_result.stage :
         data_result.stage[i].Count =
           CountRows(DefectsIn,
                     LAMBDA d : IsOpenDefect(d) /\ d.Phase = data_result.stage[i].Phase)
    /\ StageTotal = CountRows(DefectsIn, IsOpenDefect)

\* the rows of the RAID file
RaidIn == raid_file.rows

IsOpenItem(r, type) == r.Type = type /\ r.Status = StatusOpen

\* an open item of the category whose target date is in the past
IsOverdueItem(r, type) == IsOpenItem(r, type) /\ r.TargetDate = "2000-01-01"

\* C20: the status of a category is critical when one of its open items has
\* a target date in the past, else warning when it has an open item, else
\* healthy; two open Risk items, one past and one future, give critical
\* with total 2 and open 2
C20_RaidPrecedence ==
  data_result.kind = "metrics" =>
    \A i \in DOMAIN data_result.raid :
      LET rec == data_result.raid[i] IN
        rec.Status =
          IF CountRows(RaidIn, LAMBDA r : IsOverdueItem(r, rec.Type)) > 0 THEN "critical"
          ELSE IF CountRows(RaidIn, LAMBDA r : IsOpenItem(r, rec.Type)) > 0 THEN "warning"
          ELSE "healthy"

\* the number of the sprint an issue of S1..S6 is in
SprintOf(r) == CHOOSE k \in DOMAIN SprintDigits : r.SprintID = SprintCell(k)

\* the sprints that have an issue, and the 5 latest of them
SprintsWithIssues == {SprintOf(IssuesIn[i]) : i \in DOMAIN IssuesIn}
WindowSprints ==
  IF Cardinality(SprintsWithIssues) <= 5 THEN SprintsWithIssues
  ELSE SprintsWithIssues \ {CHOOSE k \in SprintsWithIssues :
                               \A m \in SprintsWithIssues : k <= m}

InWindow(r) == SprintOf(r) \in WindowSprints

\* C21: the capacity output has one record for each assignee who has an issue
\* in the 5 sprints of the highest ordinals (all sprints when there are
\* fewer); the load is the sum of the story points of the assignee's issues
\* in those sprints, older sprints adding nothing, and the capacity is 40
C21_CapacityWindow ==
  data_result.kind = "metrics" =>
    LET cap == data_result.capacity
        assignees == {IssuesIn[i].Assignee : i \in {j \in DOMAIN IssuesIn : InWindow(IssuesIn[j])}}
                       \ {NaN}
    IN /\ Len(cap) = Cardinality(assignees)
       /\ {cap[i].Assignee : i \in DOMAIN cap} = assignees
       /\ \A i \in DOMAIN cap :
            /\ cap[i].Load =
                 PointsWhere(LAMBDA r : r.Assignee = cap[i].Assignee /\ InWindow(r))
            /\ cap[i].AssumedCapacity = 40

C21_Witness ==
  /\ data_result.kind = "metrics"
  /\ Len(IssuesIn) = 6
  /\ \A i \in DOMAIN IssuesIn :
       IssuesIn[i].Assignee = IF SprintOf(IssuesIn[i]) \in {1, 6} THEN Ann ELSE Bob
  /\ data_result.capacity =
       <<[Assignee |-> Ann, Load |-> 32, AssumedCapacity |-> 40],
         [Assignee |-> Bob, Load |-> 30, AssumedCapacity |-> 40]>>

\* the target date cells that are written as a date
IsDateCell(cell) == cell \in {"2000-01-01", "2999-01-01"}

\* C22: a RAID item whose target date cell is no date (empty, or a text that
\* cannot be parsed) does not make the call fail; its date is NaT, no status
\* it may have makes get_raid_status_display show it as overdue, and a
\* category whose open items all have such cells is not critical
C22_UnparsableDate ==
  DataDone =>
    /\ data_result.kind = "metrics"
    /\ Len(data_result.df_raid) = Len(RaidIn)
    /\ \A i \in DOMAIN RaidIn :
         ~IsDateCell(RaidIn[i].TargetDate) =>
           /\ data_result.df_raid[i].DueDate = <<>>
           /\ \A st \in {StatusOpen, StatusClosed} :
                get_raid_status_display([Status |-> st,
                                         DueDate |-> data_result.df_raid[i].DueDate])
                  # "Overdue"
    /\ \A i \in DOMAIN data_result.raid :
         (\A j \in DOMAIN RaidIn :
            IsOpenItem(RaidIn[j], data_result.raid[i].Type)
              => ~IsDateCell(RaidIn[j].TargetDate))
           => data_result.raid[i].Status # "critical"

C22_Witness ==
  /\ data_result.kind = "metrics"
  /\ RaidIn = <<RaidItem(Risk, StatusOpen, "ann", "tbd"),
                RaidItem(IssueCategory, StatusClosed, "ann", "")>>
  /\ data_result.df_raid[1].DueDate = <<>>
  /\ data_result.df_raid[2].DueDate = <<>>
  /\ data_result.raid = <<[Type |-> Risk, Status |-> "warning", Total |-> 1, Open |-> 1]>>

\* the categories that have an open item
OpenCategories == {RaidIn[i].Type : i \in {j \in DOMAIN RaidIn : RaidIn[j].Status = StatusOpen}}

\* C27: the RAID summary has exactly one record for each category that has
\* an open item and none for any other category; total and open count of a
\* record both equal the number of open items of its category, and no record
\* has the healthy status
C27_RaidOpenOnly ==
  data_result.kind = "metrics" =>
    /\ Len(data_result.raid) = Cardinality(OpenCategories)
    /\ {data_result.raid[i].Type : i \in DOMAIN data_result.raid} = OpenCategories
    /\ \A i \in DOMAIN data_result.raid :
         LET rec == data_result.raid[i] IN
           /\ rec.Total = rec.Open
           /\ rec.Open = CountRows(RaidIn, LAMBDA r : IsOpenItem(r, rec.Type))
           /\ rec.Open > 0
           /\ rec.Status # "healthy"

C27_Witness ==
  /\ data_result.kind = "metrics"
  /\ RaidIn = <<RaidItem(Risk, StatusOpen, "ann", "2999-01-01"),
                RaidItem(IssueCategory, StatusClosed, "ann", "2000-01-01")>>
  /\ data_result.raid = <<[Type |-> Risk, Status |-> "warning", Total |-> 1, Open |-> 1]>>

\* the declared parameters of a tool that have no default
WithoutDefault(tool) ==
  {tool.parameters[i].name :
     i \in {j \in DOMAIN tool.parameters :
              "default" \notin DOMAIN tool.parameters[j].spec}}

\* sp is a specification of tool: named as the tool, its required list holds
\* each declared parameter without default once and nothing else, and its
\* properties are the declared parameters, each schema without 'optional'
IsSpecOf(sp, tool) ==
  /\ sp.name = tool.name
  /\ Range(sp.parameters.required) = WithoutDefault(tool)
  /\ Len(sp.parameters.required) = Cardinality(WithoutDefault(tool))
  /\ Len(sp.parameters.properties) = Len(tool.parameters)
  /\ \A i \in DOMAIN tool.parameters :
       LET declared == tool.parameters[i]
           property == sp.parameters.properties[i]
       IN /\ property.name = declared.name
          /\ DOMAIN property.spec = DOMAIN declared.spec \ {"optional"}
          /\ \A k \in DOMAIN property.spec : property.spec[k] = declared.spec[k]

\* C23: get_spec of a tool lists as required exactly the declared parameters
\* without default and holds as properties every declared parameter without
\* its 'optional' key; get_all_tool_specs returns one specification for each
\* registry key, named as the key and being the specification of its tool
C23_ToolSpecs ==
  /\ gpc = "returned" => IsSpecOf(spec_result, self)
  /\ gpc = "returned_all" =>
       /\ Len(all_specs) = Cardinality(ToolNames)
       /\ \A i \in DOMAIN all_specs : all_specs[i].name \in ToolNames
       /\ \A key \in ToolNames :
            /\ Cardinality({i \in DOMAIN all_specs : all_specs[i].name = key}) = 1
            /\ \A i \in DOMAIN all_specs :
                 all_specs[i].name = key => IsSpecOf(all_specs[i], TOOL_REGISTRY[key])

C23_Witness ==
  /\ gpc = "returned_all"
  /\ Len(all_specs) = 6
  /\ all_specs[3].name = "calculate_capacity_utilization"
  /\ all_specs[3].parameters.required = <<"df_jira">>
  /\ all_specs[3].parameters.properties =
       <<Param("df_jira", ObjectParam), Param("num_sprints", NumSprintsParam)>>

\* what a failed attempt meets when the failure is not an HTTP error status
NonHttpFailures == {"no_connection", "bad_json"}

\* C28: an attempt that fails without an HTTP error status is the last one
\* of its call, which returns the 'unexpected error' value with no sleep after
\* it; a call with a key returns from within an attempt of the loop, and the
\* result after the loop is never produced
C28_NonHttpFailureReturns ==
  /\ \A i \in DOMAIN seen :
       seen[i].kind \in NonHttpFailures =>
         /\ i = Len(seen)
         /\ fpc = "returned"
         /\ requests = i
         /\ Len(sleeps) = i - 1
         /\ fetch_result = FetchResult("error", MsgUnexpected, NoBody)
  /\ (fpc = "returned" /\ ~KeyMissing(f_key)) =>
       /\ f_attempt < MAX_RETRIES
       /\ requests = f_attempt + 1
       /\ Len(sleeps) = f_attempt
  /\ fetch_result # ExhaustedResult
  /\ fetch_result.text # MsgFailedToConnect

C28_Witness ==
  /\ fpc = "returned"
  /\ Len(seen) = 2
  /\ seen[1] = Outcome("http_error", 429, NoBody)
  /\ seen[2].kind = "no_connection"
  /\ sleeps = <<1>>
  /\ fetch_result = FetchResult("error", MsgUnexpected, NoBody)

\* h is a prefix of g: g holds the entries of h, unchanged and in place
IsPrefix(h, g) == Len(h) <= Len(g) /\ SubSeq(g, 1, Len(h)) = h

\* C24: during a call the history holds the history passed in as a prefix,
\* a turn leaves the history it started on as a prefix, and a call that
\* returns, whatever its outcome, returns that history
C24_HistoryAppendOnly ==
  /\ pc \in {"loop", "returned", "crashed"} =>
       /\ IsPrefix(hist0, turn_hist)
       /\ IsPrefix(turn_hist, history)
  /\ pc = "returned" =>
       /\ result.history = history
       /\ IsPrefix(hist0, result.history)

C24_Witness ==
  /\ pc = "returned"
  /\ result.text = MsgMaxTurns
  /\ Len(hist0) = 2
  /\ hist0[2].role = "model"
  /\ Len(result.history) = 8
  /\ SubSeq(result.history, 1, 2) = hist0
  /\ \A i \in 4..8 : result.history[i].role = "function"

\* the response the step handles holds a text part, a tool-call request
HasTextPart == \E i \in DOMAIN PartsOf(gemini_response'.body) :
                 IsText(PartsOf(gemini_response'.body)[i])
HasCallPart == \E i \in DOMAIN PartsOf(gemini_response'.body) :
                 IsCall(PartsOf(gemini_response'.body)[i])

\* the step appends a model-role entry
AppendsModelEntry ==
  \E j \in (Len(history) + 1)..Len(history') : history'[j].role = "model"

\* C25: a turn on a response with both a text part and a tool-call request
\* appends no model entry, returns nothing and goes on to the next turn; a
\* turn that appends a model entry is on a response without tool-call request
C25_MixedResponseIsToolTurn ==
  [][/\ (TurnOnBody /\ HasTextPart /\ HasCallPart) =>
          /\ ~AppendsModelEntry
          /\ pc' # "returned"
          /\ ContinuesToNextTurn
     /\ (TurnOnBody /\ AppendsModelEntry) => ~HasCallPart]_vars

\* C26: the chat history of a dashboard session never holds two user
\* entries next to each other
C26_NoAdjacentUserEntries ==
  caller = "app" =>
    \A i \in 1..(Len(history) - 1) :
      ~(history[i].role = "user" /\ history[i + 1].role = "user")

====
